---- MODULE Spec2Model ----
(***************************************************************************)
(* Device access queue (withDevice) and account discovery                  *)
(* (scanAccountsOnDevice, scanNextAccount, coreSyncAccount) of             *)
(* src/helpers/libcore.js, as a state machine.                             *)
(*                                                                         *)
(* Every `await` of the source is a step boundary: a label of pc names the *)
(* asynchronous operation a call is waiting for, and the action that       *)
(* completes it runs the synchronous code up to the next await.            *)
(***************************************************************************)
EXTENDS Integers, Sequences, FiniteSets, TLC

\* ------------------------------------------------------------------ bounds
\* number of withDevice(...)(job) calls made by the application
NCalls == 2
\* accounts at index >= MaxIdx have no operation on the chain
MaxIdx == 1
\* number of operations the indexer reports for an account that has any
MaxOps == 2
\* events delivered to one event receiver while its sync is awaited
MaxEvents == 2
\* failures the environment injects in one run (device, transport, indexer)
MaxFaults == 2

\* number of syncAccount calls
NResyncs == 2

\* resync() calls of one StepAmountFooter: the one of componentDidMount and those
\* of componentDidUpdate
MaxFooterCalls == 3

\* -------------------------------------------------------- program constants
\* { maxRetry: 1 } passed to retry()
maxRetry == 1
\* number of derivations of an account creation info (wallet path, account path)
NDerivations == 2

Calls == 1..NCalls

Resyncs == 1..NResyncs

FooterCalls == 1..MaxFooterCalls

\* the initial `Promise.resolve()` the queue starts with
ResolvedPromise == 0

\* SPLITTED_CURRENCIES: the ids of its entries
SPLITTED_CURRENCIES == {"bitcoin_cash", "bitcoin_gold"}

\* currencies of getCryptoCurrencyById the model draws currencyId from
CurrencyIds == {"dogecoin", "bitcoin", "bitcoin_cash", "bitcoin_gold"}

supportsSegwit(currencyId) == currencyId \in {"bitcoin", "bitcoin_gold"}

CurrencyCoinType(currencyId) ==
  CASE currencyId = "bitcoin" -> 0
    [] currencyId = "dogecoin" -> 3
    [] currencyId = "bitcoin_cash" -> 145
    [] OTHER -> 156

Undefined == "undefined"
None == "none"

VARIABLES
  queue,        \* the promise new calls chain on: ResolvedPromise or the call whose p.catch() it is
  busy,         \* the device busy flag
  pred,         \* pred[c]: the value of `queue` that call c chained its job on
  pc,           \* pc[c]: where call c is
  transport,    \* transport[c]: state of the transport opened for call c
  openTries,    \* openTries[c]: failed attempts of TransportNodeHid.open so far
  outcome,      \* outcome[c]: how the promise p of call c settles
  callOrder,    \* the calls in the order withDevice was invoked
  startOrder,   \* the calls in the order their queue callback started
  scan,         \* scan[c]: the locals of the discovery job of call c
  wallets,      \* wallet names present in the libcore pool
  accountsDb,   \* <<walletName, index>> of every account of the pool
  subscribers,  \* event receivers subscribed to a sync event bus
  sync,         \* sync[c]: the pending coreSyncAccount promise of call c
  chain,        \* <<walletName, index, n>>: the indexer holds n operations for the account
  faults,       \* failures injected so far
  SHOW_LEGACY_NEW_ACCOUNT, \* config/constants flag
  resync,       \* resync[r]: the locals and the promise of syncAccount call r
  ledger,       \* the operations the indexer holds for the account being re-synced
  now,          \* the clock `new Date()` reads
  lifecycle,    \* StepAmountFooter: "constructed", "mounted" or "unmounted"
  props,        \* this.props: account, transaction, bridge
  state,        \* this.state: totalSpent, canNext, isSyncing
  syncId,       \* this.syncId
  footer,       \* footer[i]: the locals of the i-th resync() call and where it is
  setStates     \* the this.setState calls made so far, in order

resyncVars == <<resync, ledger, now>>

footerVars == <<lifecycle, props, state, syncId, footer, setStates>>

vars == <<queue, busy, pred, pc, transport, openTries, outcome, callOrder, startOrder,
          scan, wallets, accountsDb, subscribers, sync, chain, faults,
          SHOW_LEGACY_NEW_ACCOUNT,
                 resyncVars, footerVars>>

lockVars == <<queue, busy, pred, transport, openTries, callOrder, startOrder>>
poolVars == <<wallets, accountsDb, chain>>
syncVars == <<subscribers, sync>>

\* ------------------------------------------------------------------ errors
\* an Error object: its class name and its message
Err(name, message) == [name |-> name, message |-> message]

\* messages whose text contains 'HID'
HIDMessages == {"cannot open HID device", "HID write failed"}

\* errors the transport raises
TransportErrors == {Err("TransportError", "HID write failed"),
                    Err("TransportStatusError", "device is locked")}

OpenErrors == {Err("TransportError", "cannot open HID device"),
               Err("Error", "device busy")}

CloseErrors == {Err("Error", "close failed")}

\* mapError: the error the job's rejection is rethrown as.
\* A rejection value that is a string has no .message.
mapError(e) ==
  IF e.name # "string" /\ e.message \in HIDMessages
    THEN Err("DisconnectedDevice", e.message)
    ELSE e

NoError == Err(None, "")

\* how a promise is settled: state is "pending", "resolved" or "rejected"
Unsettled == [state |-> "pending", error |-> NoError]
Resolved == [state |-> "resolved", error |-> NoError]
Rejected(e) == [state |-> "rejected", error |-> e]

\* ------------------------------------------------------ wallet identities
\* the derivation path scanAccountsOnDeviceBySegwit asks the device for:
\* `const { coinType } = customOpts ? customOpts.coinType : currency` destructures
\* a number when customOpts is set, which leaves coinType undefined
PassCoinType(currencyId, isUnsplit) ==
  IF isUnsplit /\ currencyId \in SPLITTED_CURRENCIES
    THEN Undefined
    ELSE ToString(CurrencyCoinType(currencyId))

PassPath(currencyId, isSegwit, isUnsplit) ==
  (IF isSegwit THEN "49" ELSE "44") \o "'/" \o PassCoinType(currencyId, isUnsplit) \o "'"

\* the public key the device derives at a path
PublicKeyAt(path) == "pub(" \o path \o ")"

encodeWalletName(publicKey, currencyId, isSegwit, isUnsplit) ==
  LET splitConfig == isUnsplit /\ currencyId \in SPLITTED_CURRENCIES
  IN  publicKey \o "__" \o currencyId
        \o (IF isSegwit THEN "_segwit" ELSE "")
        \o (IF splitConfig THEN "_unsplit" ELSE "")

\* wallet.getAccountCount()
AccountCount(w) == Cardinality({a \in accountsDb : a[1] = w})

\* the index wallet.getNextAccountCreationInfo() proposes: the lowest free one
NextAccountIndex(w) ==
  CHOOSE i \in 0..AccountCount(w) :
    /\ <<w, i>> \notin accountsDb
    /\ \A j \in 0..(i - 1) : <<w, j>> \in accountsDb

\* ------------------------------------------------------------ sync events
EVENT_CODES == {"UNDEFINED", "NEW_OPERATION", "SYNCHRONIZATION_STARTED",
                "SYNCHRONIZATION_FAILED", "SYNCHRONIZATION_SUCCEED",
                "SYNCHRONIZATION_SUCCEED_ON_PREVIOUSLY_EMPTY_ACCOUNT"}

\* e.getPayload(): absent, or carrying EV_SYNC_ERROR_MESSAGE
JsonText == "{name:LedgerAPIError,message:rate limited}"
EcSuffix == " (EC_PRIV_KEY_INVALID_FORMAT)"
Payloads ==
  {[present |-> FALSE, message |-> ""],
   [present |-> TRUE, message |-> ""],
   [present |-> TRUE, message |-> JsonText],
   [present |-> TRUE, message |-> JsonText \o EcSuffix],
   [present |-> TRUE, message |-> "network unreachable"],
   [present |-> TRUE, message |-> "bad key" \o EcSuffix]}

\* String.prototype.replace(' (EC_PRIV_KEY_INVALID_FORMAT)', '')
StripEc(message) ==
  CASE message = JsonText \o EcSuffix -> JsonText
    [] message = "bad key" \o EcSuffix -> "bad key"
    [] OTHER -> message

\* the message coreSyncAccount builds from the payload of a failure event
FailureMessage(payload) ==
  StripEc(IF payload.present /\ payload.message # ""
            THEN payload.message
            ELSE "Sync failed")

\* JSON.parse(message) succeeds
ParsesAsJson(message) == message = JsonText

\* deserializeError(JSON.parse(message))
deserializeError(message) == Err("LedgerAPIError", "rate limited")

\* the value coreSyncAccount rejects with
SyncRejection(payload) ==
  LET message == FailureMessage(payload)
  IN  IF ParsesAsJson(message)
        THEN deserializeError(message)
        ELSE Err("string", message)

\* mutant: UNDEFINED is not handled as a failure
IsFailureCode_NoUndefined(code) == code = "SYNCHRONIZATION_FAILED"

IsFailureCode(code) == code \in {"UNDEFINED", "SYNCHRONIZATION_FAILED"}

IsSuccessCode(code) ==
  code \in {"SYNCHRONIZATION_SUCCEED",
            "SYNCHRONIZATION_SUCCEED_ON_PREVIOUSLY_EMPTY_ACCOUNT"}

\* resolve / reject of a promise act only while it is pending
Settle(promise, settled) ==
  IF promise.state = "pending" THEN settled ELSE promise

NoPayload == [present |-> FALSE, message |-> ""]
NoEvent == [code |-> None, payload |-> NoPayload]
NoReceiver == [owner |-> 0, serial |-> 0]

\* a coreSyncAccount call: its receiver, its promise, the events the receiver got,
\* and the first terminal event among them
IdleSync == [receiver |-> NoReceiver, promise |-> Unsettled, events |-> 0,
             terminal |-> NoEvent]

\* the codes of the terminal events of account.synchronize()
TerminalCodes == {"UNDEFINED", "SYNCHRONIZATION_FAILED", "SYNCHRONIZATION_SUCCEED",
                  "SYNCHRONIZATION_SUCCEED_ON_PREVIOUSLY_EMPTY_ACCOUNT"}

\* the event receiver's callback
onEvent(s, code, payload) ==
  LET seen == [s EXCEPT !.events = @ + 1,
                        !.terminal = IF @.code = None /\ code \in TerminalCodes
                                       THEN [code |-> code, payload |-> payload]
                                       ELSE @]
  IN  IF IsFailureCode(code)
        THEN [seen EXCEPT !.promise = Settle(@, Rejected(SyncRejection(payload)))]
        ELSE IF IsSuccessCode(code)
          THEN [seen EXCEPT !.promise = Settle(@, Resolved)]
          ELSE seen

\* ------------------------------------------------------- discovery passes
\* the four scanAccountsOnDeviceBySegwit calls of scanAccountsOnDevice, in source order
LegacyBlock == 1
SegwitBlock == 2
UnsplitBlock == 3
UnsplitSegwitBlock == 4
\* `return allAccounts`
ReturnBlock == 5

BlockIsSegwit(b) == b \in {SegwitBlock, UnsplitSegwitBlock}
BlockIsUnsplit(b) == b \in {UnsplitBlock, UnsplitSegwitBlock}

\* mutant: every pass shows the new account
BlockShowNewAccount_Always(b, currencyId) == TRUE

\* mutant: no pass shows the new account
BlockShowNewAccount_Never(b, currencyId) == FALSE

\* showNewAccount of each scanAccountsOnDeviceBySegwit call
BlockShowNewAccount(b, currencyId) ==
  CASE b = LegacyBlock -> SHOW_LEGACY_NEW_ACCOUNT \/ ~supportsSegwit(currencyId)
    [] b = SegwitBlock -> TRUE
    [] OTHER -> FALSE

\* mutant: the unsplit segwit pass is not guarded by supportsSegwit
NextBlock_Unguarded(currencyId, b) ==
  CASE b = 0 -> LegacyBlock
    [] b = LegacyBlock ->
         IF supportsSegwit(currencyId) THEN SegwitBlock
         ELSE IF currencyId \in SPLITTED_CURRENCIES THEN UnsplitBlock
         ELSE ReturnBlock
    [] b = SegwitBlock ->
         IF currencyId \in SPLITTED_CURRENCIES THEN UnsplitBlock ELSE ReturnBlock
    [] b = UnsplitBlock -> UnsplitSegwitBlock
    [] OTHER -> ReturnBlock

\* the block control reaches after block b returned (b = 0: the job starts)
NextBlock(currencyId, b) ==
  CASE b = 0 -> LegacyBlock
    [] b = LegacyBlock ->
         IF supportsSegwit(currencyId) THEN SegwitBlock
         ELSE IF currencyId \in SPLITTED_CURRENCIES THEN UnsplitBlock
         ELSE ReturnBlock
    [] b = SegwitBlock ->
         IF currencyId \in SPLITTED_CURRENCIES THEN UnsplitBlock ELSE ReturnBlock
    [] b = UnsplitBlock ->
         IF supportsSegwit(currencyId) THEN UnsplitSegwitBlock ELSE ReturnBlock
    [] OTHER -> ReturnBlock

NoAccount == [wallet |-> "", index |-> -1]

\* the locals of one scanAccountsOnDevice job
IdleScan ==
  [currencyId |-> None,
   blk |-> 0,              \* the block being run
   isSegwit |-> FALSE, isUnsplit |-> FALSE, showNewAccount |-> FALSE,
   wallet |-> "",          \* walletName of the pass
   accountsCount |-> 0, accountIndex |-> 0,
   accounts |-> <<>>,      \* accounts of the pass
   allAccounts |-> <<>>,
   njsAccount |-> NoAccount,
   creationIndex |-> 0,    \* index of accountCreationInfos
   publicKeys |-> 0,       \* length of accountCreationInfos.publicKeys
   ops |-> 0,              \* ops.length
   nSyncs |-> 0,           \* coreSyncAccount calls made so far
   \* history, for the properties
   passes |-> <<>>,        \* blocks entered
   passLog |-> <<>>,       \* per returned pass: its block, last index, probes, result
   probes |-> <<>>,        \* ops.length seen at each index of the current pass
   scanned |-> <<>>,       \* arguments of onAccountScanned
   created |-> {},         \* account creations
   syncFailed |-> FALSE]   \* a coreSyncAccount of the job rejected

\* scanAccountsOnDeviceBySegwit is called for block b: up to hwApp.getWalletPublicKey
EnterPass(s, b) ==
  [s EXCEPT !.blk = b,
            !.isSegwit = BlockIsSegwit(b),
            !.isUnsplit = BlockIsUnsplit(b),
            !.showNewAccount = BlockShowNewAccount(b, s.currencyId),
            !.passes = Append(@, b),
            !.probes = <<>>]

\* mutant: off by one
hasBeenScanned_OffByOne(accountIndex, accountsCount) == accountIndex < accountsCount - 1

hasBeenScanned(accountIndex, accountsCount) == accountIndex < accountsCount

\* the first await of scanNextAccount
ProbeLabel(accountIndex, accountsCount) ==
  IF hasBeenScanned(accountIndex, accountsCount) THEN "getAccount" ELSE "creationInfo"

\* mutant: the test is inverted
isEmpty_Inverted(ops) == ops # 0

\* mutant: the scan never sees an empty account
isEmpty_Never(ops) == FALSE

isEmpty(ops) == ops = 0

\* njsAccount.getRestoreKey()
RestoreKey(njsAccount) ==
  "xpub(" \o njsAccount.wallet \o "/" \o ToString(njsAccount.index) \o ")"

\* the AccountRaw buildAccountRaw returns (operations: their number)
buildAccountRaw(s) ==
  [id |-> [xpub |-> RestoreKey(s.njsAccount), walletName |-> s.wallet],
   xpub |-> RestoreKey(s.njsAccount),
   index |-> s.accountIndex,
   isSegwit |-> s.isSegwit,
   currencyId |-> s.currencyId,
   operations |-> s.ops]

\* what the chain indexer can report for the account at an index
OpsAt(index) == IF index < MaxIdx THEN {0, MaxOps} ELSE {0}

IdxCap == MaxIdx + 2

\* --------------------------------------------------- account projection
\* core.OPERATION_TYPES
OPERATION_TYPES == {"SEND", "RECEIVE"}

\* op.getAmount().toLong(), op.getFees().toLong(), op.getDate() of the operations
\* the indexer can hold
Amounts == {5}
Fees == {0, 2}
Dates == {1, 2}

\* the hash of the k-th transaction of the account
TxHash(k) == "tx" \o ToString(k)

NJSOperations ==
  [type : OPERATION_TYPES, amount : Amounts, fee : Fees, date : Dates,
   hash : {TxHash(k) : k \in 1..MaxOps}]

\* what query.complete().execute() can return for an account: up to MaxOps
\* operations, in the order of the indexer
Ledgers ==
  UNION {{ops \in [1..n -> NJSOperations] : \A k \in 1..n : ops[k].hash = TxHash(k)} :
           n \in 0..MaxOps}

\* the ledgers of the runs with concurrent syncAccount calls: no operation, and a
\* send and a receive of the same date
SampleLedgers ==
  {<<>>,
   <<[type |-> "SEND", amount |-> 5, fee |-> 2, date |-> 1, hash |-> TxHash(1)],
     [type |-> "RECEIVE", amount |-> 5, fee |-> 0, date |-> 1, hash |-> TxHash(2)]>>}

\* insertion of op into a list sorted by descending date, behind the operations
\* of the same date
RECURSIVE InsertByDate(_, _)
InsertByDate(sorted, op) ==
  IF sorted = <<>>
    THEN <<op>>
    ELSE IF Head(sorted).date >= op.date
           THEN <<Head(sorted)>> \o InsertByDate(Tail(sorted), op)
           ELSE <<op>> \o sorted

\* `ops.sort((a, b) => b.getDate() - a.getDate())`: most recent first; for the short
\* arrays of the model the engine's sort is an insertion sort, which keeps the
\* query order of operations of the same date
RECURSIVE SortByDateDesc(_)
SortByDateDesc(ops) ==
  IF Len(ops) = 0
    THEN <<>>
    ELSE InsertByDate(SortByDateDesc(SubSeq(ops, 1, Len(ops) - 1)), ops[Len(ops)])

\* OperationTypeMap[operationType]
OperationTypeMap(operationType) ==
  CASE operationType = "SEND" -> "OUT"
    [] operationType = "RECEIVE" -> "IN"
    [] OTHER -> Undefined

\* mutant: the fee is not added to the value of a send
buildOperationRaw_NoFee(op, xpub) ==
  LET type == OperationTypeMap(op.type)
  IN  [id |-> xpub \o "-" \o op.hash \o "-" \o type,
       hash |-> op.hash,
       type |-> type,
       value |-> op.amount,
       fee |-> op.fee,
       accountId |-> xpub,
       date |-> op.date]

buildOperationRaw(op, xpub) ==
  LET type == OperationTypeMap(op.type)
      value == IF type = "OUT" THEN op.amount + op.fee ELSE op.amount
  IN  [id |-> xpub \o "-" \o op.hash \o "-" \o type,
       hash |-> op.hash,
       type |-> type,
       value |-> value,
       fee |-> op.fee,
       accountId |-> xpub,
       date |-> op.date]

\* `ops.sort(...)` then `ops.map(op => buildOperationRaw({ core, op, xpub }))`
buildOperations(ops, xpub) ==
  LET sorted == SortByDateDesc(ops)
  IN  [j \in 1..Len(sorted) |-> buildOperationRaw(sorted[j], xpub)]

\* njsAccount.getBalance(): what was received less what was sent and paid in fees
RECURSIVE BalanceOf(_)
BalanceOf(ops) ==
  IF Len(ops) = 0
    THEN 0
    ELSE LET op == ops[Len(ops)]
             rest == BalanceOf(SubSeq(ops, 1, Len(ops) - 1))
         IN  IF op.type = "SEND" THEN rest - (op.amount + op.fee) ELSE rest + op.amount

\* ------------------------------------------------------------- syncAccount
NoRawAccount ==
  [id |-> [xpub |-> "", walletName |-> ""], index |-> -1, currencyId |-> None,
   isSegwit |-> FALSE]

NoSnapshot ==
  [id |-> [xpub |-> "", walletName |-> ""], xpub |-> "", index |-> -1,
   isSegwit |-> FALSE, currencyId |-> None, operations |-> <<>>, balance |-> 0,
   lastSyncDate |-> 0]

\* the locals of one syncAccount call, and how its promise settled
IdleResync ==
  [pc |-> "idle",
   rawAccount |-> NoRawAccount,
   wallet |-> "",            \* decodedAccountId.walletName, the name of njsWallet
   accountIndex |-> 0,       \* rawAccount.index
   isSegwit |-> FALSE, currencyId |-> None,
   njsAccount |-> NoAccount,
   sync |-> IdleSync,        \* the coreSyncAccount promise being awaited
   ops |-> <<>>,             \* the operations the query returned
   balance |-> 0,            \* njsBalance.toLong()
   outcome |-> Unsettled,
   syncedRawAccount |-> NoSnapshot,
   \* history, for the properties
   recovered |-> {}]         \* the lookups that failed and were recovered from

\* -------------------------------------------------------- StepAmountFooter
\* the accounts and transactions the Send modal passes as props
FooterAccounts == {"acc1", "acc2"}
FooterTransactions == {"tx10", "tx20"}

\* the amount of a transaction
TransactionAmount(transaction) == IF transaction = "tx10" THEN 10 ELSE 20

\* the props resync() reads: each may be null
FooterProps ==
  [account : FooterAccounts \cup {None},
   transaction : FooterTransactions \cup {None},
   bridge : {"bridge", None}]

\* what bridge.getTotalSpent resolves with: the amount plus the fees of the account
getTotalSpent(account, transaction) ==
  TransactionAmount(transaction) + (IF account = "acc1" THEN 1 ELSE 2)

\* what bridge.isRecipientValid resolves with for the recipient of the transaction
isRecipientValid(account, transaction) == transaction = "tx10"

\* whether bridge.checkCanBeSpent resolves (true) or rejects (false)
checkCanBeSpent(account, transaction) == account = "acc1" \/ transaction = "tx10"

\* the errors a bridge call rejects with
BridgeErrors == {Err("NetworkDown", "network down")}

\* `state = { isSyncing: false, totalSpent: 0, canNext: false }`
InitialState == [isSyncing |-> FALSE, totalSpent |-> 0, canNext |-> FALSE]

\* a resync() call that was not made
IdleFooter ==
  [pc |-> "idle", syncId |-> 0, account |-> None, transaction |-> None,
   totalSpent |-> 0, isRecipientValid |-> FALSE]

\* the props the component is constructed with: an account is selected and no
\* transaction was created yet
FirstProps == [account |-> "acc1", transaction |-> None, bridge |-> "bridge"]

\* the component after construction
FooterConstructed ==
  /\ lifecycle = "constructed"
  /\ props = FirstProps
  /\ state = InitialState
  /\ syncId = 0
  /\ footer = [i \in FooterCalls |-> IdleFooter]
  /\ setStates = <<>>

\* ------------------------------------------------------------------- Init
Init ==
  /\ queue = ResolvedPromise
  /\ busy = FALSE
  /\ pred = [c \in Calls |-> ResolvedPromise]
  /\ pc = [c \in Calls |-> "idle"]
  /\ transport = [c \in Calls |-> "none"]
  /\ openTries = [c \in Calls |-> 0]
  /\ outcome = [c \in Calls |-> Unsettled]
  /\ callOrder = <<>>
  /\ startOrder = <<>>
  /\ scan = [c \in Calls |-> IdleScan]
  /\ wallets = {}
  /\ accountsDb = {}
  /\ subscribers = {}
  /\ sync = [c \in Calls |-> IdleSync]
  /\ chain = {}
  /\ faults = 0
  /\ SHOW_LEGACY_NEW_ACCOUNT \in BOOLEAN
  /\ resync = [r \in Resyncs |-> IdleResync]
  /\ ledger = <<>>
  /\ now = 1
  /\ FooterConstructed

\* ------------------------------------------------------------- withDevice
\* a promise of the queue chain is settled
Settled(q) == IF q = ResolvedPromise THEN TRUE ELSE pc[q] \in {"resolved", "rejected"}

\* mutant: the job is not chained on the queue
QueueGate_NoWait(c) == TRUE

\* mutant: `queue = p`, so the callback is skipped when the call before rejected
QueueGate_NoCatch(c) ==
  IF pred[c] = ResolvedPromise THEN TRUE ELSE pc[pred[c]] = "resolved"

\* `queue.then(...)`: the callback of call c may run
QueueGate(c) == Settled(pred[c])

\* mutant: the queue is not advanced to the new call
QueueAfter_Stale(c) == queue

\* `queue = p.catch(() => null)`
QueueAfter(c) == c

\* the environment injects one more failure
Fault ==
  /\ faults < MaxFaults
  /\ faults' = faults + 1

\* scanAccountsOnDevice(props): withDevice(devicePath)(job) chains the job on the
\* queue. Calls are numbered in the order they are made, and the calls of one run
\* scan the same currency.
WithDevice(c, currencyId) ==
  /\ pc[c] = "idle"
  /\ c = Len(callOrder) + 1
  /\ \A d \in Calls : pc[d] # "idle" => scan[d].currencyId = currencyId
  /\ pred' = [pred EXCEPT ![c] = queue]
  /\ queue' = QueueAfter(c)
  /\ pc' = [pc EXCEPT ![c] = "queued"]
  /\ callOrder' = Append(callOrder, c)
  /\ scan' = [scan EXCEPT ![c].currencyId = currencyId]
  /\ UNCHANGED <<busy, transport, openTries, outcome, startOrder, poolVars, syncVars,
                 faults, SHOW_LEGACY_NEW_ACCOUNT,
                 resyncVars, footerVars>>

\* the queue callback starts: busy = true, TransportNodeHid.open is called
Start(c) ==
  /\ pc[c] = "queued"
  /\ QueueGate(c)
  /\ busy' = TRUE
  /\ pc' = [pc EXCEPT ![c] = "open"]
  /\ startOrder' = Append(startOrder, c)
  /\ UNCHANGED <<queue, pred, transport, openTries, outcome, callOrder, scan, poolVars,
                 syncVars, faults, SHOW_LEGACY_NEW_ACCOUNT,
                 resyncVars, footerVars>>

\* open resolved: job(t) is called and runs up to the first getWalletPublicKey
OpenDone(c) ==
  /\ pc[c] = "open"
  /\ transport' = [transport EXCEPT ![c] = "open"]
  /\ scan' = [scan EXCEPT ![c] = EnterPass(@, NextBlock(@.currencyId, 0))]
  /\ pc' = [pc EXCEPT ![c] = "pk"]
  /\ UNCHANGED <<queue, busy, pred, openTries, outcome, callOrder, startOrder, poolVars,
                 syncVars, faults, SHOW_LEGACY_NEW_ACCOUNT,
                 resyncVars, footerVars>>

\* retry(f, { maxRetry }) calls f again while fewer than maxRetry retries were made
ShouldRetry(tries) == tries < maxRetry

\* open rejected: retry() calls it again up to maxRetry times, then rejects;
\* the outer finally clears busy and p rejects with the error of open
OpenFail(c, e) ==
  /\ pc[c] = "open"
  /\ Fault
  /\ IF ShouldRetry(openTries[c])
       THEN /\ openTries' = [openTries EXCEPT ![c] = @ + 1]
            /\ UNCHANGED <<busy, pc, outcome>>
       ELSE /\ busy' = FALSE
            /\ pc' = [pc EXCEPT ![c] = "rejected"]
            /\ outcome' = [outcome EXCEPT ![c] = Rejected(e)]
            /\ UNCHANGED openTries
  /\ UNCHANGED <<queue, pred, transport, callOrder, startOrder, scan, poolVars, syncVars,
                 SHOW_LEGACY_NEW_ACCOUNT,
                 resyncVars, footerVars>>

\* mutant: t.close() is skipped when the job rejects
JobRejects_NoClose(c, e) ==
  /\ pc' = [pc EXCEPT ![c] = "rejected"]
  /\ outcome' = [outcome EXCEPT ![c] = Rejected(mapError(e))]
  /\ busy' = FALSE
  /\ UNCHANGED transport

\* job(t) rejected with e: .catch(mapError) rethrows, the inner finally calls t.close()
JobRejects(c, e) ==
  /\ pc' = [pc EXCEPT ![c] = "close"]
  /\ outcome' = [outcome EXCEPT ![c] = Rejected(mapError(e))]
  /\ UNCHANGED <<busy, transport>>

\* job(t) resolved: `return res`, the inner finally calls t.close()
JobResolves(c) ==
  /\ pc' = [pc EXCEPT ![c] = "close"]
  /\ outcome' = [outcome EXCEPT ![c] = Resolved]
  /\ UNCHANGED <<busy, transport>>

\* the job's locals once p has settled: they are out of scope
Dropped(s) == [IdleScan EXCEPT !.currencyId = s.currencyId]

\* t.close() resolved: the outer finally clears busy and p settles as the job did
CloseDone(c) ==
  /\ pc[c] = "close"
  /\ transport' = [transport EXCEPT ![c] = "closed"]
  /\ busy' = FALSE
  /\ pc' = [pc EXCEPT ![c] = outcome[c].state]
  /\ scan' = [scan EXCEPT ![c] = Dropped(@)]
  /\ UNCHANGED <<queue, pred, openTries, outcome, callOrder, startOrder, poolVars,
                 syncVars, faults, SHOW_LEGACY_NEW_ACCOUNT,
                 resyncVars, footerVars>>

\* mutant: busy is left set when t.close() rejects
CloseFail_KeepsBusy(c, e) ==
  /\ pc[c] = "close"
  /\ Fault
  /\ transport' = [transport EXCEPT ![c] = "closeFailed"]
  /\ pc' = [pc EXCEPT ![c] = "rejected"]
  /\ outcome' = [outcome EXCEPT ![c] = Rejected(e)]
  /\ scan' = [scan EXCEPT ![c] = Dropped(@)]
  /\ UNCHANGED <<queue, busy, pred, openTries, callOrder, startOrder, poolVars, syncVars,
                 SHOW_LEGACY_NEW_ACCOUNT,
                 resyncVars, footerVars>>

\* t.close() rejected: its error replaces the job's outcome
CloseFail(c, e) ==
  /\ pc[c] = "close"
  /\ Fault
  /\ transport' = [transport EXCEPT ![c] = "closeFailed"]
  /\ busy' = FALSE
  /\ pc' = [pc EXCEPT ![c] = "rejected"]
  /\ outcome' = [outcome EXCEPT ![c] = Rejected(e)]
  /\ scan' = [scan EXCEPT ![c] = Dropped(@)]
  /\ UNCHANGED <<queue, pred, openTries, callOrder, startOrder, poolVars, syncVars,
                 SHOW_LEGACY_NEW_ACCOUNT,
                 resyncVars, footerVars>>

\* ------------------------------------------------------ the discovery job
jobFrame == <<queue, pred, openTries, callOrder, startOrder, SHOW_LEGACY_NEW_ACCOUNT,
                 resyncVars, footerVars>>

\* the job goes on to its next await
Continue(c, label) ==
  /\ pc' = [pc EXCEPT ![c] = label]
  /\ UNCHANGED <<busy, transport, outcome>>

\* hwApp.getWalletPublicKey(path) resolved: the wallet name is encoded and
\* getOrCreateWallet is called
PkDone(c) ==
  /\ pc[c] = "pk"
  /\ LET s == scan[c]
         publicKey == PublicKeyAt(PassPath(s.currencyId, s.isSegwit, s.isUnsplit))
         walletName == encodeWalletName(publicKey, s.currencyId, s.isSegwit, s.isUnsplit)
     IN  scan' = [scan EXCEPT ![c].wallet = walletName]
  /\ Continue(c, "wallet")
  /\ UNCHANGED <<jobFrame, poolVars, syncVars, faults>>

\* a hwApp.getWalletPublicKey call rejected
DeviceFail(c, e) ==
  /\ pc[c] \in {"pk", "derive"}
  /\ Fault
  /\ JobRejects(c, e)
  /\ UNCHANGED <<jobFrame, scan, poolVars, syncVars>>

\* getOrCreateWallet resolved: the wallet is in the pool; getAccountCount is called
WalletDone(c) ==
  /\ pc[c] = "wallet"
  /\ wallets' = wallets \cup {scan[c].wallet}
  /\ Continue(c, "count")
  /\ UNCHANGED <<jobFrame, scan, accountsDb, chain, syncVars, faults>>

\* getAccountCount resolved: scanNextAccount is called with accountIndex 0
CountDone(c) ==
  /\ pc[c] = "count"
  /\ LET n == AccountCount(scan[c].wallet)
     IN  /\ scan' = [scan EXCEPT ![c].accountsCount = n,
                                  ![c].accountIndex = 0,
                                  ![c].accounts = <<>>]
         /\ Continue(c, ProbeLabel(0, n))
  /\ UNCHANGED <<jobFrame, poolVars, syncVars, faults>>

\* coreSyncAccount(core, njsAccount) is called: account.synchronize(), and the new
\* receiver is subscribed to the event bus
BeginSync(c) ==
  LET receiver == [owner |-> c, serial |-> scan[c].nSyncs + 1]
  IN  /\ sync' = [sync EXCEPT ![c] = [IdleSync EXCEPT !.receiver = receiver]]
      /\ subscribers' = subscribers \cup {receiver}
      /\ Continue(c, "sync")

\* wallet.getAccount(accountIndex) settled
GetAccountDone(c) ==
  /\ pc[c] = "getAccount"
  /\ LET s == scan[c]
     IN  IF <<s.wallet, s.accountIndex>> \in accountsDb
           THEN /\ scan' = [scan EXCEPT
                              ![c].njsAccount = [wallet |-> s.wallet, index |-> s.accountIndex],
                              ![c].nSyncs = @ + 1]
                /\ BeginSync(c)
           ELSE /\ JobRejects(c, Err("LibcoreError", "account not found"))
                /\ UNCHANGED <<scan, syncVars>>
  /\ UNCHANGED <<jobFrame, poolVars, faults>>

\* createAccount: wallet.getNextAccountCreationInfo() resolved, the first derivation
\* is asked of the device
CreationInfoDone(c) ==
  /\ pc[c] = "creationInfo"
  /\ scan' = [scan EXCEPT ![c].creationIndex = NextAccountIndex(scan[c].wallet),
                           ![c].publicKeys = 0]
  /\ Continue(c, IF NDerivations > 0 THEN "derive" ELSE "newAccount")
  /\ UNCHANGED <<jobFrame, poolVars, syncVars, faults>>

\* createAccount: hwApp.getWalletPublicKey(derivation) resolved; the next derivation
\* is asked, or wallet.newAccountWithInfo is called
DeriveDone(c) ==
  /\ pc[c] = "derive"
  /\ scan' = [scan EXCEPT ![c].publicKeys = @ + 1]
  /\ Continue(c, IF scan[c].publicKeys + 1 < NDerivations THEN "derive" ELSE "newAccount")
  /\ UNCHANGED <<jobFrame, poolVars, syncVars, faults>>

\* createAccount: wallet.newAccountWithInfo settled
NewAccountDone(c) ==
  /\ pc[c] = "newAccount"
  /\ LET s == scan[c]
         key == <<s.wallet, s.creationIndex>>
     IN  IF key \notin accountsDb
           THEN /\ accountsDb' = accountsDb \cup {key}
                /\ scan' = [scan EXCEPT
                              ![c].njsAccount = [wallet |-> s.wallet, index |-> s.creationIndex],
                              ![c].nSyncs = @ + 1,
                              ![c].created = @ \cup {[wallet |-> s.wallet,
                                                      probe |-> s.accountIndex,
                                                      count |-> s.accountsCount,
                                                      index |-> s.creationIndex]}]
                /\ BeginSync(c)
           ELSE /\ JobRejects(c, Err("LibcoreError", "account already exists"))
                /\ UNCHANGED <<scan, accountsDb, syncVars>>
  /\ UNCHANGED <<jobFrame, wallets, chain, faults>>

\* the event bus delivers an event to the receiver of the sync being awaited
SyncEvent(c, code, payload) ==
  /\ pc[c] = "sync"
  /\ sync[c].receiver \in subscribers
  \* the terminal event of a sync is delivered, whatever came before it
  /\ \/ sync[c].events < MaxEvents
     \/ code \in TerminalCodes /\ sync[c].terminal.code = None
  \* only failure events carry a payload the receiver reads
  /\ IF IsFailureCode(code) THEN Fault ELSE payload = NoPayload /\ UNCHANGED faults
  /\ sync' = [sync EXCEPT ![c] = onEvent(@, code, payload)]
  /\ UNCHANGED <<lockVars, busy, pc, outcome, scan, poolVars, subscribers,
                 SHOW_LEGACY_NEW_ACCOUNT,
                 resyncVars, footerVars>>

\* mutant: a rejected sync is caught and the scan goes on
SyncDone_Swallow(c) ==
  /\ pc[c] = "sync"
  /\ sync[c].promise.state # "pending"
  /\ Continue(c, "query")
  /\ scan' = [scan EXCEPT ![c].syncFailed = @ \/ sync[c].promise.state = "rejected"]
  /\ sync' = [sync EXCEPT ![c] = IdleSync]
  /\ UNCHANGED <<jobFrame, poolVars, subscribers, faults>>

\* `await coreSyncAccount(core, njsAccount)` of scanNextAccount is resumed: the
\* resolved value (the unsubscribe function) is not used, the promise is dropped;
\* queryOperations is called
SyncDone(c) ==
  /\ pc[c] = "sync"
  /\ sync[c].promise.state # "pending"
  /\ IF sync[c].promise.state = "resolved"
       THEN /\ Continue(c, "query")
            /\ UNCHANGED scan
       ELSE /\ JobRejects(c, sync[c].promise.error)
            /\ scan' = [scan EXCEPT ![c].syncFailed = TRUE]
  /\ sync' = [sync EXCEPT ![c] = IdleSync]
  /\ UNCHANGED <<jobFrame, poolVars, subscribers, faults>>

\* query.complete().execute() resolved with n operations; buildAccountRaw is called
QueryDone(c, n) ==
  /\ pc[c] = "query"
  /\ LET account == scan[c].njsAccount
     IN  /\ n \in OpsAt(account.index)
         /\ \A t \in chain : (t[1] = account.wallet /\ t[2] = account.index) => t[3] = n
         /\ chain' = chain \cup {<<account.wallet, account.index, n>>}
  /\ scan' = [scan EXCEPT ![c].ops = n, ![c].probes = Append(@, n)]
  /\ Continue(c, "build")
  /\ UNCHANGED <<jobFrame, wallets, accountsDb, syncVars, faults>>

\* buildAccountRaw threw NoAddressesFound
BuildFail(c) ==
  /\ pc[c] = "build"
  /\ Fault
  /\ JobRejects(c, Err("NoAddressesFound", ""))
  /\ UNCHANGED <<jobFrame, scan, poolVars, syncVars>>

\* mutant: the account is pushed without calling onAccountScanned
Report_NoCallback(s, account) == [s EXCEPT !.accounts = Append(@, account)]

\* `onAccountScanned(account); accounts.push(account)`
Report(s, account) ==
  [s EXCEPT !.scanned = Append(@, account), !.accounts = Append(@, account)]

\* buildAccountRaw resolved: the rest of scanNextAccount, and what follows its
\* return in scanAccountsOnDeviceBySegwit and scanAccountsOnDevice
BuildDone(c) ==
  /\ pc[c] = "build"
  /\ LET s == scan[c]
         account == buildAccountRaw(s)
         reported == IF ~isEmpty(s.ops) \/ s.showNewAccount
                       THEN Report(s, account)
                       ELSE s
         returned == [reported EXCEPT
                        !.allAccounts = @ \o reported.accounts,
                        !.passLog = Append(@, [blk |-> s.blk,
                                               stopIndex |-> s.accountIndex,
                                               probes |-> s.probes,
                                               accounts |-> reported.accounts])]
         next == NextBlock(s.currencyId, s.blk)
     IN  IF isEmpty(s.ops)
           THEN IF next = ReturnBlock
                  THEN /\ scan' = [scan EXCEPT ![c] = returned]
                       /\ JobResolves(c)
                  ELSE /\ scan' = [scan EXCEPT ![c] = EnterPass(returned, next)]
                       /\ Continue(c, "pk")
           ELSE /\ s.accountIndex < IdxCap
                /\ scan' = [scan EXCEPT ![c] = [reported EXCEPT !.accountIndex = @ + 1]]
                /\ Continue(c, ProbeLabel(s.accountIndex + 1, s.accountsCount))
  /\ UNCHANGED <<jobFrame, poolVars, syncVars, faults>>

\* ------------------------------------------------------------------- Next
\* the steps of the calls that were made
Step ==
  \/ \E c \in Calls : Start(c)
  \/ \E c \in Calls : OpenDone(c)
  \/ \E c \in Calls, e \in OpenErrors : OpenFail(c, e)
  \/ \E c \in Calls : CloseDone(c)
  \/ \E c \in Calls, e \in CloseErrors : CloseFail(c, e)
  \/ \E c \in Calls : PkDone(c)
  \/ \E c \in Calls, e \in TransportErrors : DeviceFail(c, e)
  \/ \E c \in Calls : WalletDone(c)
  \/ \E c \in Calls : CountDone(c)
  \/ \E c \in Calls : GetAccountDone(c)
  \/ \E c \in Calls : CreationInfoDone(c)
  \/ \E c \in Calls : DeriveDone(c)
  \/ \E c \in Calls : NewAccountDone(c)
  \/ \E c \in Calls, code \in EVENT_CODES, payload \in Payloads : SyncEvent(c, code, payload)
  \/ \E c \in Calls : SyncDone(c)
  \/ \E c \in Calls, n \in 0..MaxOps : QueryDone(c, n)
  \/ \E c \in Calls : BuildFail(c)
  \/ \E c \in Calls : BuildDone(c)

Next ==
  \/ \E c \in Calls, currencyId \in CurrencyIds : WithDevice(c, currencyId)
  \/ Step

Spec == Init /\ [][Next]_vars

\* the wallet name of a pass
PassWalletName(currencyId, isSegwit, isUnsplit) ==
  encodeWalletName(PublicKeyAt(PassPath(currencyId, isSegwit, isUnsplit)),
                   currencyId, isSegwit, isUnsplit)

AllWalletNames ==
  {PassWalletName(currencyId, isSegwit, isUnsplit) :
     currencyId \in CurrencyIds, isSegwit \in BOOLEAN, isUnsplit \in BOOLEAN}

\* the pool earlier discoveries left: every wallet holds accounts 0..n-1
ScanInit ==
  /\ queue = ResolvedPromise
  /\ busy = FALSE
  /\ pred = [c \in Calls |-> ResolvedPromise]
  /\ pc = [c \in Calls |-> "idle"]
  /\ transport = [c \in Calls |-> "none"]
  /\ openTries = [c \in Calls |-> 0]
  /\ outcome = [c \in Calls |-> Unsettled]
  /\ callOrder = <<>>
  /\ startOrder = <<>>
  /\ scan = [c \in Calls |-> IdleScan]
  /\ \E n \in 0..MaxIdx :
        /\ wallets = IF n = 0 THEN {} ELSE AllWalletNames
        /\ accountsDb = AllWalletNames \X (0..(n - 1))
  /\ subscribers = {}
  /\ sync = [c \in Calls |-> IdleSync]
  /\ chain = {}
  /\ faults = 0
  /\ SHOW_LEGACY_NEW_ACCOUNT \in BOOLEAN
  /\ resync = [r \in Resyncs |-> IdleResync]
  /\ ledger = <<>>
  /\ now = 1
  /\ FooterConstructed

\* the runs in which the application calls scanAccountsOnDevice once
ScanNext ==
  \/ \E currencyId \in CurrencyIds : WithDevice(1, currencyId)
  \/ Step

ScanSpec == ScanInit /\ [][ScanNext]_vars

\* an operation call c awaits settles (resolves or rejects)
Progress(c) ==
  \/ Start(c)
  \/ OpenDone(c)
  \/ \E e \in OpenErrors : OpenFail(c, e)
  \/ CloseDone(c)
  \/ \E e \in CloseErrors : CloseFail(c, e)
  \/ PkDone(c)
  \/ \E e \in TransportErrors : DeviceFail(c, e)
  \/ WalletDone(c)
  \/ CountDone(c)
  \/ GetAccountDone(c)
  \/ CreationInfoDone(c)
  \/ DeriveDone(c)
  \/ NewAccountDone(c)
  \/ SyncDone(c)
  \/ \E n \in 0..MaxOps : QueryDone(c, n)
  \/ BuildFail(c)
  \/ BuildDone(c)

\* the event bus delivers a terminal event to the receiver of call c
TerminalEvent(c) ==
  \E code \in TerminalCodes, payload \in Payloads : SyncEvent(c, code, payload)

\* every awaited operation eventually settles and every sync eventually delivers a
\* terminal event
FairScanSpec ==
  /\ ScanSpec
  /\ \A c \in Calls : WF_vars(Progress(c)) /\ WF_vars(TerminalEvent(c))

\* the currency the calls of QueueSpec scan: one pass per call
QueueCurrencyId == "dogecoin"

\* the runs in which the application calls scanAccountsOnDevice for one currency
\* up to NCalls times, at any moment
QueueNext ==
  \/ \E c \in Calls : WithDevice(c, QueueCurrencyId)
  \/ Step

QueueSpec == Init /\ [][QueueNext]_vars

\* the runs of QueueSpec in which every awaited operation eventually settles and
\* every sync eventually delivers a terminal event
FairQueueSpec ==
  /\ QueueSpec
  /\ \A c \in Calls : WF_vars(Progress(c)) /\ WF_vars(TerminalEvent(c))


\* ------------------------------------------------------------- syncAccount
\* the accounts the application persisted and passes to syncAccount
RawAccounts ==
  {[id |-> [xpub |-> RestoreKey([wallet |-> PassWalletName("bitcoin", isSegwit, FALSE),
                                 index |-> index]),
            walletName |-> PassWalletName("bitcoin", isSegwit, FALSE)],
    index |-> index,
    currencyId |-> "bitcoin",
    isSegwit |-> isSegwit] : isSegwit \in BOOLEAN, index \in 0..MaxIdx}

\* what a syncAccount call leaves alone
resyncFrame == <<lockVars, pc, outcome, scan, sync, chain, SHOW_LEGACY_NEW_ACCOUNT,
                 footerVars>>

\* the call goes on to its next await
RsContinue(r, rs, label) == resync' = [resync EXCEPT ![r] = [rs EXCEPT !.pc = label]]

\* the locals of a call whose promise settled are out of scope
RsDropped(rs) ==
  [IdleResync EXCEPT !.rawAccount = rs.rawAccount, !.recovered = rs.recovered]

\* an awaited operation rejected with e outside a try block: syncAccount rejects with e
RsRejects(r, e) ==
  resync' = [resync EXCEPT ![r] = [RsDropped(@) EXCEPT !.pc = "rejected",
                                                        !.outcome = Rejected(e)]]

\* syncAccount({ rawAccount, core }) is called: the id is decoded and
\* pool.getWallet(walletName) is called. Calls are numbered in the order they are
\* made, and the calls of one run sync the same account.
SyncAccount(r, rawAccount) ==
  /\ resync[r].pc = "idle"
  /\ \A q \in Resyncs : q < r => resync[q].pc # "idle"
  /\ \A q \in Resyncs : resync[q].pc # "idle" => resync[q].rawAccount = rawAccount
  /\ resync' = [resync EXCEPT ![r] = [IdleResync EXCEPT
                                        !.pc = "getWallet",
                                        !.rawAccount = rawAccount,
                                        !.wallet = rawAccount.id.walletName,
                                        !.accountIndex = rawAccount.index,
                                        !.isSegwit = rawAccount.isSegwit,
                                        !.currencyId = rawAccount.currencyId]]
  /\ UNCHANGED <<resyncFrame, wallets, accountsDb, subscribers, faults, ledger, now>>

\* mutant: a failed wallet lookup is not caught
RsGetWalletDone_NoCatch(r) ==
  /\ resync[r].pc = "getWallet"
  /\ IF resync[r].wallet \in wallets
       THEN RsContinue(r, resync[r], "getAccount")
       ELSE RsRejects(r, Err("LibcoreError", "wallet not found"))
  /\ UNCHANGED <<resyncFrame, wallets, accountsDb, subscribers, faults, ledger, now>>

\* pool.getWallet(walletName) settled: njsWallet.getAccount(index) is called, or,
\* in the catch block, getOrCreateWallet
RsGetWalletDone(r) ==
  /\ resync[r].pc = "getWallet"
  /\ IF resync[r].wallet \in wallets
       THEN RsContinue(r, resync[r], "getAccount")
       ELSE RsContinue(r, [resync[r] EXCEPT !.recovered = @ \cup {"wallet"}], "wallet")
  /\ UNCHANGED <<resyncFrame, wallets, accountsDb, subscribers, faults, ledger, now>>

\* getOrCreateWallet resolved: the wallet is in the pool; getAccount(index) is called
RsWalletDone(r) ==
  /\ resync[r].pc = "wallet"
  /\ wallets' = wallets \cup {resync[r].wallet}
  /\ RsContinue(r, resync[r], "getAccount")
  /\ UNCHANGED <<resyncFrame, accountsDb, subscribers, faults, ledger, now>>

\* coreSyncAccount(core, njsAccount) is called by syncAccount call r
RsBeginSync(r, rs) ==
  LET receiver == [owner |-> NCalls + r, serial |-> 1]
  IN  /\ RsContinue(r, [rs EXCEPT !.sync = [IdleSync EXCEPT !.receiver = receiver]], "sync")
      /\ subscribers' = subscribers \cup {receiver}

\* njsWallet.getAccount(rawAccount.index) settled: the account is synchronized, or,
\* in the catch block, getExtendedKeyAccountCreationInfo is called
RsGetAccountDone(r) ==
  /\ resync[r].pc = "getAccount"
  /\ LET rs == resync[r]
     IN  IF <<rs.wallet, rs.accountIndex>> \in accountsDb
           THEN RsBeginSync(r, [rs EXCEPT !.njsAccount = [wallet |-> rs.wallet,
                                                          index |-> rs.accountIndex]])
           ELSE /\ RsContinue(r, [rs EXCEPT !.recovered = @ \cup {"account"}], "extInfo")
                /\ UNCHANGED subscribers
  /\ UNCHANGED <<resyncFrame, wallets, accountsDb, faults, ledger, now>>

\* getExtendedKeyAccountCreationInfo resolved: the stored xpub is pushed and
\* newAccountWithExtendedKeyInfo is called
RsExtInfoDone(r) ==
  /\ resync[r].pc = "extInfo"
  /\ RsContinue(r, resync[r], "newAccount")
  /\ UNCHANGED <<resyncFrame, wallets, accountsDb, subscribers, faults, ledger, now>>

\* newAccountWithExtendedKeyInfo settled
RsNewAccountDone(r) ==
  /\ resync[r].pc = "newAccount"
  /\ LET rs == resync[r]
         key == <<rs.wallet, rs.accountIndex>>
     IN  IF key \notin accountsDb
           THEN /\ accountsDb' = accountsDb \cup {key}
                /\ RsBeginSync(r, [rs EXCEPT !.njsAccount = [wallet |-> rs.wallet,
                                                             index |-> rs.accountIndex]])
           ELSE /\ RsRejects(r, Err("LibcoreError", "account already exists"))
                /\ UNCHANGED <<accountsDb, subscribers>>
  /\ UNCHANGED <<resyncFrame, wallets, faults, ledger, now>>

\* the event bus delivers an event to the receiver of syncAccount call r
RsSyncEvent(r, code, payload) ==
  /\ resync[r].pc = "sync"
  /\ resync[r].sync.receiver \in subscribers
  /\ \/ resync[r].sync.events < MaxEvents
     \/ code \in TerminalCodes /\ resync[r].sync.terminal.code = None
  /\ IF IsFailureCode(code) THEN Fault ELSE payload = NoPayload /\ UNCHANGED faults
  /\ resync' = [resync EXCEPT ![r].sync = onEvent(@, code, payload)]
  /\ UNCHANGED <<resyncFrame, wallets, accountsDb, subscribers, ledger, now>>

\* `const unsub = await coreSyncAccount(core, njsAccount)` is resumed: unsub() is
\* called and the operations are queried; a rejected sync rejects syncAccount
RsSyncDone(r) ==
  /\ resync[r].pc = "sync"
  /\ resync[r].sync.promise.state # "pending"
  /\ IF resync[r].sync.promise.state = "resolved"
       THEN /\ subscribers' = subscribers \ {resync[r].sync.receiver}
            /\ RsContinue(r, [resync[r] EXCEPT !.sync = IdleSync], "query")
       ELSE /\ RsRejects(r, resync[r].sync.promise.error)
            /\ UNCHANGED subscribers
  /\ UNCHANGED <<resyncFrame, wallets, accountsDb, faults, ledger, now>>

\* query.complete().execute() resolved with the operations of the account;
\* njsAccount.getBalance() is called
RsQueryDone(r) ==
  /\ resync[r].pc = "query"
  /\ RsContinue(r, [resync[r] EXCEPT !.ops = ledger], "balance")
  /\ UNCHANGED <<resyncFrame, wallets, accountsDb, subscribers, faults, ledger, now>>

\* njsAccount.getBalance() resolved; buildAccountRaw is called
RsBalanceDone(r) ==
  /\ resync[r].pc = "balance"
  /\ RsContinue(r, [resync[r] EXCEPT !.balance = BalanceOf(ledger)], "build")
  /\ UNCHANGED <<resyncFrame, wallets, accountsDb, subscribers, faults, ledger, now>>

\* buildAccountRaw threw NoAddressesFound
RsBuildFail(r) ==
  /\ resync[r].pc = "build"
  /\ Fault
  /\ RsRejects(r, Err("NoAddressesFound", ""))
  /\ UNCHANGED <<resyncFrame, wallets, accountsDb, subscribers, ledger, now>>

\* mutant: the operation ids carry the date of the sync
SyncedRawAccount_DatedIds(rs, date) ==
  LET xpub == RestoreKey(rs.njsAccount) \o "@" \o ToString(date)
  IN  [id |-> [xpub |-> RestoreKey(rs.njsAccount), walletName |-> rs.wallet],
       xpub |-> RestoreKey(rs.njsAccount),
       index |-> rs.accountIndex,
       isSegwit |-> rs.isSegwit,
       currencyId |-> rs.currencyId,
       operations |-> buildOperations(rs.ops, xpub),
       balance |-> rs.balance,
       lastSyncDate |-> date]

\* the account syncAccount returns: buildAccountRaw over the queried operations,
\* with `syncedRawAccount.balance = njsBalance.toLong()`
SyncedRawAccount(rs, date) ==
  LET xpub == RestoreKey(rs.njsAccount)
  IN  [id |-> [xpub |-> xpub, walletName |-> rs.wallet],
       xpub |-> xpub,
       index |-> rs.accountIndex,
       isSegwit |-> rs.isSegwit,
       currencyId |-> rs.currencyId,
       operations |-> buildOperations(rs.ops, xpub),
       balance |-> rs.balance,
       lastSyncDate |-> date]

\* buildAccountRaw resolved: syncAccount returns syncedRawAccount
RsBuildDone(r) ==
  /\ resync[r].pc = "build"
  /\ resync' = [resync EXCEPT ![r] =
                  [RsDropped(@) EXCEPT !.pc = "resolved",
                                       !.outcome = Resolved,
                                       !.syncedRawAccount = SyncedRawAccount(resync[r], now)]]
  /\ now' = now + 1
  /\ UNCHANGED <<resyncFrame, wallets, accountsDb, subscribers, faults, ledger>>

\* the steps of the syncAccount calls that were made
RsStep ==
  \/ \E r \in Resyncs : RsGetWalletDone(r)
  \/ \E r \in Resyncs : RsWalletDone(r)
  \/ \E r \in Resyncs : RsGetAccountDone(r)
  \/ \E r \in Resyncs : RsExtInfoDone(r)
  \/ \E r \in Resyncs : RsNewAccountDone(r)
  \/ \E r \in Resyncs, code \in EVENT_CODES, payload \in Payloads : RsSyncEvent(r, code, payload)
  \/ \E r \in Resyncs : RsSyncDone(r)
  \/ \E r \in Resyncs : RsQueryDone(r)
  \/ \E r \in Resyncs : RsBalanceDone(r)
  \/ \E r \in Resyncs : RsBuildFail(r)
  \/ \E r \in Resyncs : RsBuildDone(r)

\* the pool as the application finds it: intact, with the wallets but without
\* their accounts, or without the wallets
SyncInit ==
  /\ queue = ResolvedPromise
  /\ busy = FALSE
  /\ pred = [c \in Calls |-> ResolvedPromise]
  /\ pc = [c \in Calls |-> "idle"]
  /\ transport = [c \in Calls |-> "none"]
  /\ openTries = [c \in Calls |-> 0]
  /\ outcome = [c \in Calls |-> Unsettled]
  /\ callOrder = <<>>
  /\ startOrder = <<>>
  /\ scan = [c \in Calls |-> IdleScan]
  /\ \/ wallets = AllWalletNames /\ accountsDb = AllWalletNames \X (0..MaxIdx)
     \/ wallets = AllWalletNames /\ accountsDb = {}
     \/ wallets = {} /\ accountsDb = {}
  /\ subscribers = {}
  /\ sync = [c \in Calls |-> IdleSync]
  /\ chain = {}
  /\ faults = 0
  /\ SHOW_LEGACY_NEW_ACCOUNT = FALSE
  /\ resync = [r \in Resyncs |-> IdleResync]
  /\ ledger \in SampleLedgers
  /\ now = 1
  /\ FooterConstructed

\* the runs in which the application calls syncAccount
SyncNext ==
  \/ \E r \in Resyncs, rawAccount \in RawAccounts : SyncAccount(r, rawAccount)
  \/ RsStep

SyncSpec == SyncInit /\ [][SyncNext]_vars

\* the pool and the ledger of the runs in which the application syncs an account
\* and, once that call has settled, syncs it again, with nothing failing
RepeatInit ==
  /\ queue = ResolvedPromise
  /\ busy = FALSE
  /\ pred = [c \in Calls |-> ResolvedPromise]
  /\ pc = [c \in Calls |-> "idle"]
  /\ transport = [c \in Calls |-> "none"]
  /\ openTries = [c \in Calls |-> 0]
  /\ outcome = [c \in Calls |-> Unsettled]
  /\ callOrder = <<>>
  /\ startOrder = <<>>
  /\ scan = [c \in Calls |-> IdleScan]
  /\ \/ wallets = AllWalletNames /\ accountsDb = AllWalletNames \X (0..MaxIdx)
     \/ wallets = {} /\ accountsDb = {}
  /\ subscribers = {}
  /\ sync = [c \in Calls |-> IdleSync]
  /\ chain = {}
  /\ faults = MaxFaults
  /\ SHOW_LEGACY_NEW_ACCOUNT = FALSE
  /\ resync = [r \in Resyncs |-> IdleResync]
  /\ ledger \in Ledgers
  /\ now = 1
  /\ FooterConstructed

\* syncAccount is called again once the calls before it have settled
SyncAgain(r, rawAccount) ==
  /\ \A q \in Resyncs : q < r => resync[q].pc \in {"resolved", "rejected"}
  /\ SyncAccount(r, rawAccount)

RepeatNext ==
  \/ \E r \in Resyncs, rawAccount \in RawAccounts : SyncAgain(r, rawAccount)
  \/ \E r \in Resyncs : RsGetWalletDone(r)
  \/ \E r \in Resyncs : RsWalletDone(r)
  \/ \E r \in Resyncs : RsGetAccountDone(r)
  \/ \E r \in Resyncs : RsExtInfoDone(r)
  \/ \E r \in Resyncs : RsNewAccountDone(r)
  \/ \E r \in Resyncs, code \in EVENT_CODES : RsSyncEvent(r, code, NoPayload)
  \/ \E r \in Resyncs : RsSyncDone(r)
  \/ \E r \in Resyncs : RsQueryDone(r)
  \/ \E r \in Resyncs : RsBalanceDone(r)
  \/ \E r \in Resyncs : RsBuildDone(r)

RepeatSpec == RepeatInit /\ [][RepeatNext]_vars

\* -------------------------------------------------------- StepAmountFooter
footerFrame == <<lockVars, pc, outcome, scan, poolVars, syncVars, faults,
                 SHOW_LEGACY_NEW_ACCOUNT, resyncVars>>

\* number of resync() calls made so far
FooterCallsMade == Cardinality({i \in FooterCalls : footer[i].pc # "idle"})

\* this.setState(patch) by resync() call i: the fields of patch replace those of
\* this.state; React drops the update of an unmounted component
SetState(i, callSyncId, current, patch) ==
  /\ state' = IF lifecycle # "unmounted"
                THEN [k \in DOMAIN state |-> IF k \in DOMAIN patch THEN patch[k] ELSE state[k]]
                ELSE state
  /\ setStates' = Append(setStates, [by |-> i, syncId |-> callSyncId, current |-> current,
                                     unmounted |-> lifecycle = "unmounted",
                                     patch |-> patch])

\* `catch (err) { logger.critical(err); this.setState({ totalSpent: 0, canNext:
\* false, isSyncing: false }) }`
CatchSetsState(i, f) ==
  SetState(i, f.syncId, syncId, [totalSpent |-> 0, canNext |-> FALSE, isSyncing |-> FALSE])

\* resync() up to its first await, called with this.props = q
Resync(i, q) ==
  LET id == syncId + 1 IN
  /\ syncId' = id
  /\ IF q.account = None \/ q.transaction = None \/ q.bridge = None
       THEN /\ SetState(i, id, id, [canNext |-> FALSE, isSyncing |-> FALSE])
            /\ footer' = [footer EXCEPT ![i] = [IdleFooter EXCEPT !.pc = "returned",
                                                                  !.syncId = id]]
       ELSE /\ SetState(i, id, id, [isSyncing |-> TRUE])
            /\ footer' = [footer EXCEPT ![i] =
                            [IdleFooter EXCEPT !.pc = "getTotalSpent", !.syncId = id,
                                               !.account = q.account,
                                               !.transaction = q.transaction]]

\* componentDidMount
ComponentDidMount ==
  /\ lifecycle = "constructed"
  /\ lifecycle' = "mounted"
  /\ Resync(1, props)
  /\ UNCHANGED <<props, footerFrame>>

\* the parent renders the component with new props; componentDidUpdate calls
\* resync() when the account or the transaction changed
ComponentDidUpdate(q) ==
  /\ lifecycle = "mounted"
  /\ q # props
  /\ props' = q
  /\ IF q.account # props.account \/ q.transaction # props.transaction
       THEN /\ FooterCallsMade < MaxFooterCalls
            /\ Resync(FooterCallsMade + 1, q)
       ELSE UNCHANGED <<state, syncId, footer, setStates>>
  /\ UNCHANGED <<lifecycle, footerFrame>>

\* componentWillUnmount
ComponentWillUnmount ==
  /\ lifecycle = "mounted"
  /\ lifecycle' = "unmounted"
  /\ syncId' = syncId + 1
  /\ UNCHANGED <<props, state, footer, setStates, footerFrame>>

\* resync() call i ends
FooterReturns(i, f) == footer' = [footer EXCEPT ![i] = [f EXCEPT !.pc = "returned"]]

\* bridge.getTotalSpent resolved
GetTotalSpentDone(i) ==
  LET f == footer[i] IN
  /\ f.pc = "getTotalSpent"
  /\ IF f.syncId # syncId
       THEN FooterReturns(i, f)
       ELSE footer' = [footer EXCEPT ![i] =
                         [f EXCEPT !.pc = "isRecipientValid",
                                   !.totalSpent = getTotalSpent(f.account, f.transaction)]]
  /\ UNCHANGED <<lifecycle, props, state, syncId, setStates, footerFrame>>

\* bridge.getTotalSpent rejected
GetTotalSpentFail(i, e) ==
  LET f == footer[i] IN
  /\ f.pc = "getTotalSpent"
  /\ CatchSetsState(i, f)
  /\ FooterReturns(i, f)
  /\ UNCHANGED <<lifecycle, props, syncId, footerFrame>>

\* bridge.isRecipientValid resolved
IsRecipientValidDone(i) ==
  LET f == footer[i] IN
  /\ f.pc = "isRecipientValid"
  /\ IF f.syncId # syncId
       THEN FooterReturns(i, f)
       ELSE footer' = [footer EXCEPT ![i] =
                         [f EXCEPT !.pc = "checkCanBeSpent",
                                   !.isRecipientValid = isRecipientValid(f.account, f.transaction)]]
  /\ UNCHANGED <<lifecycle, props, state, syncId, setStates, footerFrame>>

\* bridge.isRecipientValid rejected
IsRecipientValidFail(i, e) ==
  LET f == footer[i] IN
  /\ f.pc = "isRecipientValid"
  /\ CatchSetsState(i, f)
  /\ FooterReturns(i, f)
  /\ UNCHANGED <<lifecycle, props, syncId, footerFrame>>

\* bridge.checkCanBeSpent settled: `.then(() => true, () => false)`
CheckCanBeSpentDone(i) ==
  LET f == footer[i]
      canBeSpent == checkCanBeSpent(f.account, f.transaction)
  IN
  /\ f.pc = "checkCanBeSpent"
  /\ IF f.syncId # syncId
       THEN UNCHANGED <<state, setStates>>
       ELSE SetState(i, f.syncId, syncId, [totalSpent |-> f.totalSpent,
                                   canNext |-> f.isRecipientValid /\ canBeSpent,
                                   isSyncing |-> FALSE])
  /\ FooterReturns(i, f)
  /\ UNCHANGED <<lifecycle, props, syncId, footerFrame>>

FooterNext ==
  \/ ComponentDidMount
  \/ \E q \in FooterProps : ComponentDidUpdate(q)
  \/ ComponentWillUnmount
  \/ \E i \in FooterCalls : GetTotalSpentDone(i)
  \/ \E i \in FooterCalls, e \in BridgeErrors : GetTotalSpentFail(i, e)
  \/ \E i \in FooterCalls : IsRecipientValidDone(i)
  \/ \E i \in FooterCalls, e \in BridgeErrors : IsRecipientValidFail(i, e)
  \/ \E i \in FooterCalls : CheckCanBeSpentDone(i)

\* one StepAmountFooter from construction to unmount
FooterSpec == Init /\ [][FooterNext]_vars

\* ============================================================= properties
SettledLabels == {"resolved", "rejected"}

\* the queue callback of call c has started and p has not settled
InFlight(c) == pc[c] \notin {"idle", "queued"} \cup SettledLabels

\* a hwApp.getWalletPublicKey call of c is in flight
OnDevice(c) == pc[c] \in {"pk", "derive"}

\* C1: at most one withDevice job is in flight, at most one transport is open and
\* at most one getWalletPublicKey call is in flight at any moment; while a job is
\* in flight every call made before it has settled and its transport is not open
C1_OneJobAtATime ==
  /\ Cardinality({c \in Calls : InFlight(c)}) <= 1
  /\ Cardinality({c \in Calls : transport[c] = "open"}) <= 1
  /\ Cardinality({c \in Calls : OnDevice(c)}) <= 1
  /\ \A c, d \in Calls :
        (d < c /\ InFlight(c)) => (pc[d] \in SettledLabels /\ transport[d] # "open")

\* C1 witness: the second call derives a key on the device after the first one
\* settled and its transport was closed
C1_Witness ==
  /\ pc[1] \in SettledLabels
  /\ transport[1] = "closed"
  /\ pc[2] = "derive"

\* the probes of a pass in progress, and those of the passes that returned
ProbesOk(probes) == \A j \in 1..(Len(probes) - 1) : probes[j] > 0

\* C2: a pass probes the indices 0, 1, 2, ... in order; whenever an index is
\* fetched, created, synchronized or queried every index probed before it was
\* non-empty; a pass returns at index i exactly when the account at i is the
\* first one with zero operations
C2_StopsAtFirstEmpty ==
  \A c \in Calls :
    LET s == scan[c] IN
    /\ pc[c] \in {"getAccount", "creationInfo", "derive", "newAccount", "sync", "query"}
         => /\ Len(s.probes) = s.accountIndex
            /\ \A j \in 1..Len(s.probes) : s.probes[j] > 0
    /\ pc[c] = "build"
         => /\ Len(s.probes) = s.accountIndex + 1
            /\ ProbesOk(s.probes)
    /\ \A k \in 1..Len(s.passLog) :
         LET r == s.passLog[k] IN
         /\ Len(r.probes) = r.stopIndex + 1
         /\ r.probes[r.stopIndex + 1] = 0
         /\ ProbesOk(r.probes)

\* C2 witness: a pass returned at index 1, after a non-empty account at index 0
C2_Witness ==
  \E c \in Calls : \E k \in 1..Len(scan[c].passLog) :
    /\ scan[c].passLog[k].stopIndex = 1
    /\ scan[c].passLog[k].probes[1] > 0

\* C3: a pass fetches the account (getAccount) only at indices below the account
\* count it read, creates one only at indices at or above it, every created
\* account gets the index being probed, and the indices of each wallet are 0..N-1
C3_CreatesOnlyBeyondCount ==
  /\ \A c \in Calls :
        LET s == scan[c] IN
        /\ pc[c] = "getAccount" => s.accountIndex < s.accountsCount
        /\ pc[c] \in {"creationInfo", "derive", "newAccount"}
             => s.accountIndex >= s.accountsCount
        /\ \A r \in s.created : r.probe >= r.count /\ r.index = r.probe
        /\ pc[c] \in {"sync", "query", "build"} => s.njsAccount.index = s.accountIndex
  /\ \A a \in accountsDb : \A j \in 0..(a[2] - 1) : <<a[1], j>> \in accountsDb

\* C3 witness: a pass on a wallet that held one account created the account at index 1
C3_Witness ==
  \E c \in Calls : \E r \in scan[c].created : r.count = 1 /\ r.probe = 1

\* the passes scanAccountsOnDevice is to run for a currency, in order
Applicable(currencyId, b) ==
  CASE b = LegacyBlock -> TRUE
    [] b = SegwitBlock -> supportsSegwit(currencyId)
    [] b = UnsplitBlock -> currencyId \in SPLITTED_CURRENCIES
    [] OTHER -> supportsSegwit(currencyId) /\ currencyId \in SPLITTED_CURRENCIES

ExpectedPasses(currencyId) ==
  SelectSeq(<<LegacyBlock, SegwitBlock, UnsplitBlock, UnsplitSegwitBlock>>,
            LAMBDA b : Applicable(currencyId, b))

\* the concatenation of the results of the first k returned passes
RECURSIVE ConcatResults(_, _)
ConcatResults(passLog, k) ==
  IF k = 0 THEN <<>> ELSE ConcatResults(passLog, k - 1) \o passLog[k].accounts

IsPrefix(p, q) == Len(p) <= Len(q) /\ \A i \in 1..Len(p) : p[i] = q[i]

\* C4: the passes entered are, in order, a prefix of legacy, segwit, unsplit-legacy,
\* unsplit-segwit restricted to those the currency calls for; a pass is entered
\* only when all the passes before it returned; allAccounts is the concatenation
\* of the returned passes' results; a job that resolves ran all of them
C4_PassOrder ==
  \A c \in Calls :
    LET s == scan[c] IN
    /\ IsPrefix(s.passes, ExpectedPasses(s.currencyId))
    /\ \A k \in 1..Len(s.passLog) : s.passLog[k].blk = s.passes[k]
    /\ pc[c] \in {"pk", "wallet", "count", "getAccount", "creationInfo", "derive",
                   "newAccount", "sync", "query", "build"}
         => Len(s.passLog) = Len(s.passes) - 1
    /\ s.allAccounts = ConcatResults(s.passLog, Len(s.passLog))
    /\ (pc[c] = "close" /\ outcome[c].state = "resolved")
         => /\ s.passes = ExpectedPasses(s.currencyId)
            /\ Len(s.passLog) = Len(s.passes)

\* C4 witness: a job ran the four passes and returned accounts of two of them
C4_Witness ==
  \E c \in Calls :
    /\ pc[c] = "close"
    /\ outcome[c].state = "resolved"
    /\ Len(scan[c].passes) = 4
    /\ scan[c].passLog[1].accounts # <<>>
    /\ scan[c].passLog[4].accounts # <<>>

\* C5: a transport that was opened is not open any more once its job's promise
\* settled, nor while busy is false, nor while another call is in flight
C5_ClosedBeforeRelease ==
  /\ \A c \in Calls : pc[c] \in SettledLabels => transport[c] # "open"
  /\ ~busy => \A c \in Calls : transport[c] # "open"
  /\ \A c, d \in Calls : (c # d /\ InFlight(d)) => transport[c] # "open"

\* C5 witness: the first job rejected, its transport is closed, and the second
\* job runs with its own transport open
C5_Witness ==
  /\ pc[1] = "rejected"
  /\ transport[1] = "closed"
  /\ transport[2] = "open"
  /\ busy

\* C6: the queue callbacks start in the order of the calls, and a callback starts
\* only when every call started before it has settled
C6_Fifo ==
  /\ IsPrefix(startOrder, callOrder)
  /\ \A i \in 1..(Len(startOrder) - 1) : pc[startOrder[i]] \in SettledLabels

\* C6 witness: the second call was made while the first job ran, the first job
\* failed, and the second job started after it
C6_Witness ==
  /\ startOrder = <<1, 2>>
  /\ pc[1] = "rejected"
  /\ pred[2] = 1
  /\ transport[1] = "closed"

PassLabels == {"pk", "wallet", "count", "getAccount", "creationInfo", "derive",
               "newAccount", "sync", "query", "build"}

\* C7: under FairScanSpec every pass that is entered ends: it returns, or the job
\* rejects
C7_PassTerminates ==
  \A c \in Calls : \A k \in 1..4 :
    (pc[c] \in PassLabels /\ Len(scan[c].passes) = k)
      ~> (Len(scan[c].passLog) >= k \/ pc[c] \in {"close"} \cup SettledLabels)

\* C7 witness: a pass created accounts and returned at the first index beyond the
\* non-empty ones
C7_Witness ==
  \E c \in Calls : \E k \in 1..Len(scan[c].passLog) :
    /\ scan[c].passLog[k].stopIndex = MaxIdx
    /\ scan[c].created # {}
    /\ pc[c] = "close"
    /\ outcome[c].state = "resolved"

\* C8 (as claimed): every subscribed receiver belongs to a sync that is still being
\* awaited, so that no receiver stays subscribed once the syncs have completed
C8_NoLeakedSubscriber ==
  \A r \in subscribers : pc[r.owner] = "sync" /\ sync[r.owner].receiver = r

\* the payload carries a message that parses as a serialized error once the
\* EC_PRIV_KEY_INVALID_FORMAT marker is removed
MachineReadable(payload) ==
  payload.present /\ payload.message \in {JsonText, JsonText \o EcSuffix}

\* C9: the promise of a sync is pending until the first terminal event; it is
\* resolved when that event is a success, and rejected when it is UNDEFINED or
\* SYNCHRONIZATION_FAILED: with the decoded error when the payload's message is
\* machine-readable, with a plain message otherwise; later events change nothing
C9_FirstTerminalEventDecides ==
  \A c \in Calls :
    pc[c] = "sync" =>
      LET p == sync[c].promise
          t == sync[c].terminal
      IN  /\ t.code = None => p.state = "pending"
          /\ t.code \in {"SYNCHRONIZATION_SUCCEED",
                         "SYNCHRONIZATION_SUCCEED_ON_PREVIOUSLY_EMPTY_ACCOUNT"}
               => p = Resolved
          /\ t.code \in {"UNDEFINED", "SYNCHRONIZATION_FAILED"}
               => /\ p.state = "rejected"
                  /\ MachineReadable(t.payload) => p.error = Err("LedgerAPIError", "rate limited")
                  /\ ~MachineReadable(t.payload) => p.error.name = "string"
                  /\ ~(t.payload.present /\ t.payload.message # "")
                       => p.error = Err("string", "Sync failed")

\* C9 witness: a sync received three events, the first terminal one of them
\* SYNCHRONIZATION_FAILED with a machine-readable message, and its promise rejected
C9_Witness ==
  \E c \in Calls :
    /\ pc[c] = "sync"
    /\ sync[c].events >= 3
    /\ sync[c].terminal.code = "SYNCHRONIZATION_FAILED"
    /\ MachineReadable(sync[c].terminal.payload)
    /\ sync[c].promise.state = "rejected"

\* C10 (as claimed): a job one of whose syncs failed still runs the passes the
\* currency calls for and resolves with the accounts found
C10_SyncFailureSparesTheRest ==
  \A c \in Calls :
    (pc[c] = "close" /\ scan[c].syncFailed)
      => (outcome[c].state = "resolved" /\ scan[c].passes = ExpectedPasses(scan[c].currencyId))

\* C10 (amended): once a sync of the job failed the job has rejected with that
\* failure and awaits nothing but the close of the transport: no further index or
\* pass is probed, and allAccounts is not returned
C10_SyncFailureAbortsTheScan ==
  \A c \in Calls :
    scan[c].syncFailed
      => /\ pc[c] = "close"
         /\ outcome[c].state = "rejected"
         /\ outcome[c].error.name \in {"LedgerAPIError", "string"}

\* C10 witness: a sync failed after an account had been reported and while passes
\* remained to run
C10_Witness ==
  \E c \in Calls :
    /\ scan[c].syncFailed
    /\ scan[c].scanned # <<>>
    /\ Len(scan[c].passes) < Len(ExpectedPasses(scan[c].currencyId))

\* C11 (as claimed): a call that rejected because the transport could not be
\* opened, with a message naming HID, rejected with a DisconnectedDevice error
C11_OpenFailureIsDisconnectedDevice ==
  \A c \in Calls :
    (pc[c] = "rejected" /\ transport[c] = "none"
       /\ outcome[c].error.message \in HIDMessages)
      => outcome[c].error.name = "DisconnectedDevice"

\* the flag the passes are called with, by block
ExpectedShowNewAccount(b, currencyId) ==
  CASE b = LegacyBlock -> SHOW_LEGACY_NEW_ACCOUNT \/ ~supportsSegwit(currencyId)
    [] b = SegwitBlock -> TRUE
    [] OTHER -> FALSE

\* the result of a returned pass holds the accounts at 0..stopIndex-1, and the
\* empty account at stopIndex exactly when `shown`
PassResultOk(r, shown) ==
  /\ Len(r.accounts) = r.stopIndex + (IF shown THEN 1 ELSE 0)
  /\ \A j \in 1..Len(r.accounts) :
       /\ r.accounts[j].index = j - 1
       /\ r.accounts[j].operations = r.probes[j]

\* C14 (as claimed): the legacy pass always shows the empty account it stopped at
\* and the unsplit passes never do
C14_LegacyPassShowsNewAccount ==
  \A c \in Calls : \A k \in 1..Len(scan[c].passLog) :
    LET r == scan[c].passLog[k] IN
    /\ r.blk = LegacyBlock => PassResultOk(r, TRUE)
    /\ BlockIsUnsplit(r.blk) => PassResultOk(r, FALSE)

\* C14 (amended): a pass result holds every non-empty account probed, in index
\* order, followed by the empty account the pass stopped at exactly when the pass
\* was called with showNewAccount; the flag is SHOW_LEGACY_NEW_ACCOUNT or "no
\* segwit support" for the legacy pass, true for the segwit pass and false for the
\* unsplit passes
C14_EmptyAccountOnlyIfShown ==
  \A c \in Calls :
    LET s == scan[c] IN
    /\ \A k \in 1..Len(s.passLog) :
         PassResultOk(s.passLog[k], ExpectedShowNewAccount(s.passLog[k].blk, s.currencyId))
    /\ \A k \in 1..Len(s.passLog) : \A j \in 1..Len(s.passLog[k].accounts) :
         s.passLog[k].accounts[j].operations = 0 => j = Len(s.passLog[k].accounts)

\* C14 witness: a legacy pass returned without its empty account and the segwit
\* pass after it returned with its empty account
C14_Witness ==
  \E c \in Calls :
    /\ Len(scan[c].passLog) >= 2
    /\ scan[c].passLog[1].blk = LegacyBlock
    /\ Len(scan[c].passLog[1].accounts) = scan[c].passLog[1].stopIndex
    /\ scan[c].passLog[2].blk = SegwitBlock
    /\ Len(scan[c].passLog[2].accounts) = scan[c].passLog[2].stopIndex + 1

\* the labels at which scanNextAccount is running
ProbingLabels == {"getAccount", "creationInfo", "derive", "newAccount", "sync", "query",
                  "build"}

OnePassScenario(c) ==
  LET s == scan[c] IN
  /\ pc[c] = "close"
  /\ outcome[c].state = "resolved"
  /\ ~supportsSegwit(s.currencyId)
  /\ s.currencyId \notin SPLITTED_CURRENCIES
  /\ \E r \in s.created : r.probe = 0 /\ r.count = 0
  /\ Len(s.passLog) >= 1
  /\ Len(s.passLog[1].probes) >= 2
  /\ s.passLog[1].probes[1] > 0
  /\ s.passLog[1].probes[2] = 0

\* C16 (as claimed): in the scenario the result holds exactly one account
C16_OneAccountReturned ==
  \A c \in Calls : OnePassScenario(c) => Len(scan[c].allAccounts) = 1

\* C16 (amended): in the scenario exactly the legacy pass runs, it stops at index 1
\* without probing index 2, and the result holds two accounts: index 0 with its
\* operations and the empty account at index 1
C16_OnePassTwoAccounts ==
  \A c \in Calls :
    OnePassScenario(c)
      => LET s == scan[c] IN
         /\ s.passes = <<LegacyBlock>>
         /\ s.passLog[1].stopIndex = 1
         /\ Len(s.passLog[1].probes) = 2
         /\ Len(s.allAccounts) = 2
         /\ s.allAccounts[1].index = 0
         /\ s.allAccounts[1].operations = s.passLog[1].probes[1]
         /\ s.allAccounts[2].index = 1
         /\ s.allAccounts[2].operations = 0

\* C16 witness: the scenario with 2 operations at index 0
C16_Witness ==
  \E c \in Calls : OnePassScenario(c) /\ scan[c].passLog[1].probes[1] = 2

\* C19: busy is true exactly while the queue callback of some call has started
\* and its promise has not settled
C19_BusyIffInFlight == busy <=> (\E c \in Calls : InFlight(c))

\* C19 witness: the first job's close failed and the second job is in flight
C19_Witness ==
  /\ transport[1] = "closeFailed"
  /\ pc[2] = "pk"
  /\ busy

\* C12 (as claimed): the promise of withDevice settles the way job(t).catch(mapError)
\* settled: resolved when the job resolved, rejected with the job's error passed
\* through mapError when the job rejected
C12_JobOutcomeIsSurfaced ==
  [][\A c \in Calls :
       (pc[c] = "close" /\ pc'[c] \in SettledLabels) => outcome'[c] = outcome[c]]_vars

\* the labels of syncAccount behind the wallet lookup, and behind the account lookup
RsBehindWallet == {"getAccount", "extInfo", "newAccount", "sync", "query", "balance", "build"}
RsBehindAccount == {"sync", "query", "balance", "build"}

Undated(snapshot) == [snapshot EXCEPT !.lastSyncDate = 0]

ProjectionOk(op, p) ==
  /\ p.hash = op.hash
  /\ p.fee = op.fee
  /\ op.type = "SEND" => (p.type = "OUT" /\ p.value = op.amount + op.fee)
  /\ op.type = "RECEIVE" => (p.type = "IN" /\ p.value = op.amount)

\* C18: the operations of a returned account are the projections of the indexer's
\* operations, one each: SEND as OUT with value amount + fee, RECEIVE as IN with
\* value amount, the fee copied
C18_OperationProjection ==
  \A r \in Resyncs :
    resync[r].pc = "resolved"
      => LET projected == resync[r].syncedRawAccount.operations
         IN  /\ Len(projected) = Len(ledger)
             /\ \A k \in 1..Len(ledger) :
                  \E j \in 1..Len(projected) : ProjectionOk(ledger[k], projected[j])

\* C18 witness: a returned account holds an OUT of value 7 (amount 5, fee 2) and an
\* IN of value 5 that paid a fee of 2
C18_Witness ==
  \E r \in Resyncs :
    /\ resync[r].pc = "resolved"
    /\ \E j, k \in 1..Len(resync[r].syncedRawAccount.operations) :
         LET p == resync[r].syncedRawAccount.operations[j]
             q == resync[r].syncedRawAccount.operations[k]
         IN  /\ p.type = "OUT" /\ p.fee = 2 /\ p.value = 7
             /\ q.type = "IN" /\ q.fee = 2 /\ q.value = 5

\* C20 (as claimed): no two synchronizations of the same indexer account are
\* awaited at the same time
C20_OneSyncPerAccount ==
  \A r, q \in Resyncs :
    (r # q /\ resync[r].pc = "sync" /\ resync[q].pc = "sync"
       /\ resync[r].sync.promise.state = "pending"
       /\ resync[q].sync.promise.state = "pending")
      => resync[r].njsAccount # resync[q].njsAccount

\* C21: a call whose open, job or close failed rejects its own promise only: a
\* call that has not started is still pending, and the promise of a call changes
\* only while that call is in flight; every call that is queued eventually starts,
\* and every call that started eventually settles, also behind a call that rejected
C21_FailureDoesNotPoisonQueue ==
  /\ [](\A c \in Calls : pc[c] \in {"idle", "queued"} => outcome[c] = Unsettled)
  /\ [][\A c \in Calls : outcome'[c] # outcome[c] => InFlight(c)]_vars
  /\ \A c \in Calls : (pc[c] = "queued") ~> InFlight(c)
  /\ \A c \in Calls : InFlight(c) ~> (pc[c] \in SettledLabels)

\* C21 witness: the first call rejected and the second call, queued behind it, ran
\* its job and resolved
C21_Witness ==
  /\ NCalls >= 2
  /\ pc[1] = "rejected"
  /\ pred[2] = 1
  /\ startOrder = <<1, 2>>
  /\ transport[2] = "closed"
  /\ pc[2] = "resolved"

\* C22 (as claimed): every this.setState call is made by the resync() call whose
\* syncId is this.syncId at that moment, and none is made after unmount
C22_StaleResyncNeverSetsState ==
  \A k \in 1..Len(setStates) :
    /\ setStates[k].syncId = setStates[k].current
    /\ ~setStates[k].unmounted
====
